---------------------------- MODULE Spec2Model ----------------------------
(***************************************************************************)
(* Lucy: retrieval-augmented question answering for rental properties.     *)
(*                                                                         *)
(*   Spec       the query path of app/query_logic.py: ask_lucy and the     *)
(*              functions it is built from (get_embedding_for_query,       *)
(*              query_pinecone, get_llm_response), each also callable on   *)
(*              its own.                                                   *)
(*   SpecLocality  get_llm_response called on its own, over property    *)
(*              identifiers built from words.                              *)
(*   SpecChunk  chunk_text of scripts/vectorize.py, one loop iteration per *)
(*              step.                                                      *)
(*   SpecIngest process_and_upload_data of scripts/vectorize.py: the index *)
(*              is found or created, the folder read, the chunks embedded  *)
(*              and upserted batch by batch.                               *)
(*   SpecRerun  the same, with the script run a second time.               *)
(*                                                                         *)
(* Python strings are sequences of one-character strings.  A Python value  *)
(* that may be None, a string or something else is a record [t, v].        *)
(***************************************************************************)
EXTENDS Integers, Sequences, FiniteSets, TLC

VARIABLES
    \* ---- app/query_logic.py ----
    settings,        \* the required settings that are set (truthy) in the environment
    pinecone_index,  \* module global: TRUE when the index handle was obtained
    entry,           \* the function the caller invoked
    pc,              \* position of the running call
    property_id,     \* ask_lucy / get_llm_response argument, query_pinecone's filter
    query_embedding, \* result of get_embedding_for_query / query_pinecone argument
    query_params,    \* what query_pinecone sent to the vector store
    store_response,  \* what the vector store answered
    context_chunks,  \* value returned by query_pinecone
    llm_outcome,     \* what the HTTP call to the LLM service produced
    prompt,          \* prompt_parts built by get_llm_response
    city_name,       \* get_llm_response's locality label (<<>> while not derived)
    calls,           \* external calls made so far, in order
    result,          \* string returned to the caller
    raised,          \* exception that escaped to the caller ("" when none)
    \* ---- scripts/vectorize.py: chunk_text ----
    text,
    max_chunk_length_chars,
    overlap,
    start_index,
    end_index,
    chunks,
    cpc,             \* position inside chunk_text
    chunk_result,    \* list returned by chunk_text
    \* ---- scripts/vectorize.py: process_and_upload_data ----
    ingest_settings,     \* the API keys that are set
    environment_config,  \* PINECONE_ENVIRONMENT_CONFIG
    pc_client,           \* pc: TRUE when the Pinecone client was initialised
    account_index,               \* the index PINECONE_INDEX_NAME of the account
    index_log,           \* the create_index requests made
    clock,               \* seconds since start_time_creation
    reported_ready,      \* describe_index has reported the index ready
    folder,              \* PROPERTY_DATA_FOLDER
    all_files_chunks_with_metadata,
    embed_from,          \* i of the embedding loop
    embeddings_batch,
    paired,              \* per chunk handled, the embedding zip paired with it
    vectors_to_upsert,
    upsert_from,         \* i of the upsert loop
    upsert_log,          \* the upsert calls made, with their outcome
    vstore,              \* the records the index holds, by id
    ipc,                 \* position inside process_and_upload_data
    run_outcome,         \* why the run returned ("" while it runs)
    first_run            \* what an earlier run of the script left

qvars == << settings, pinecone_index, entry, pc, property_id, query_embedding,
            query_params, store_response, context_chunks, llm_outcome, prompt,
            city_name, calls, result, raised >>
cvars == << text, max_chunk_length_chars, overlap, start_index, end_index,
            chunks, cpc, chunk_result >>
ivars == << ingest_settings, environment_config, pc_client, account_index, index_log,
            clock, reported_ready, folder, all_files_chunks_with_metadata,
            embed_from, embeddings_batch, paired, vectors_to_upsert, upsert_from,
            upsert_log, vstore, ipc, run_outcome, first_run >>
vars == << qvars, cvars, ivars >>

---------------------------------------------------------------------------
(* Bounds of the model *)

\* longest text handed to chunk_text
MaxTextLen == 68
\* max_chunk_length_chars ranges over 1..SmallMaxLen and over
\* MIN_CHUNK_CHARS+1 .. MIN_CHUNK_CHARS+WideMaxLen
SmallMaxLen == 3
WideMaxLen == 3
\* overlap ranges over 0..MaxOverlap
MaxOverlap == 3
\* leading / trailing blanks of a padded text
MaxPad == 2
\* longest context_chunks list handed directly to get_llm_response
MaxChunks == 2

(* Program constants *)

\* vectorize.py line 113: chunks of stripped length <= 30 are dropped
MIN_CHUNK_CHARS == 30
\* query_logic.py lines 77 and 228: top_k
TOP_K == 3

---------------------------------------------------------------------------
(* Python strings and values *)

Whitespace == {" ", "\n"}

Rep(c, n) == [i \in 1..n |-> c]

Min(a, b) == IF a < b THEN a ELSE b
Max(a, b) == IF a > b THEN a ELSE b

\* str.strip(): drop leading and trailing whitespace
RECURSIVE LStrip(_)
LStrip(s) == IF s = <<>> THEN <<>>
             ELSE IF Head(s) \in Whitespace THEN LStrip(Tail(s)) ELSE s
RECURSIVE RStrip(_)
RStrip(s) == IF s = <<>> THEN <<>>
             ELSE IF s[Len(s)] \in Whitespace THEN RStrip(SubSeq(s, 1, Len(s) - 1))
             ELSE s
Strip(s) == RStrip(LStrip(s))

\* s[a:b] with Python's handling of negative and out-of-range indices
PySlice(s, a, b) ==
    LET n  == Len(s)
        lo == IF a < 0 THEN Max(n + a, 0) ELSE Min(a, n)
        hi == IF b < 0 THEN Max(n + b, 0) ELSE Min(b, n)
    IN  IF lo >= hi THEN <<>> ELSE SubSeq(s, lo + 1, hi)

\* list(dict.fromkeys(xs)): first occurrences, order kept
RECURSIVE DictFromKeys(_, _)
DictFromKeys(xs, seen) ==
    IF xs = <<>> THEN <<>>
    ELSE IF Head(xs) \in seen THEN DictFromKeys(Tail(xs), seen)
    ELSE <<Head(xs)>> \o DictFromKeys(Tail(xs), seen \cup {Head(xs)})

\* [f(x) for x in xs if p(x)] for the chunk filter of line 113
RECURSIVE StripAndFilter(_)
StripAndFilter(cs) ==
    IF cs = <<>> THEN <<>>
    ELSE LET c == Strip(Head(cs))
         IN  (IF Len(c) > MIN_CHUNK_CHARS THEN <<c>> ELSE <<>>)
             \o StripAndFilter(Tail(cs))

---------------------------------------------------------------------------
(* Python values *)

None == [t |-> "none", v |-> <<>>]
Str(cs) == [t |-> "str", v |-> cs]
\* a value that is neither None nor a string (a number, as vector-store
\* metadata may hold)
Num == [t |-> "num", v |-> <<>>]
List(xs) == [t |-> "list", v |-> xs]

\* bool(x)
Truthy(x) ==
    CASE x.t = "none" -> FALSE
      [] x.t = "num"  -> TRUE
      [] OTHER        -> x.v # <<>>

\* outcome of a block of code: a value, or an exception on its way out
Return(val) == [exc |-> "", value |-> val]
Raise(e) == [exc |-> e, value |-> <<>>]

---------------------------------------------------------------------------
(* app/query_logic.py: configuration *)

\* line 215
RequiredSettings ==
    { "PINECONE_API_KEY", "PINECONE_INDEX_NAME", "GOOGLE_API_KEY",
      "GOOGLE_EMBEDDING_MODEL_ID", "OPENROUTER_API_KEY", "OPENROUTER_MODEL_NAME" }

\* the strings returned on failure
ApologyBrain == "Sorry, I'm having trouble connecting to my brain right now."
ApologyUnusual == "Sorry, I received an unusual response. Please try again."
ApologyCommunication == "Sorry, there was an error communicating with the AI. Please try again later."
ApologyUnexpected == "An unexpected error occurred. Please try asking again."
ApologyNotConfigured == "I'm sorry, I'm not fully configured to answer questions right now. Please contact support."
ApologyNoDatabase == "I'm sorry, I can't access the property information database at the moment."
ApologyRephrase == "I'm sorry, I couldn't understand your question for searching. Could you rephrase?"

Apology(msg) == [kind |-> "apology", text |-> msg, chars |-> <<>>]
Answer(cs) == [kind |-> "answer", text |-> "", chars |-> cs]
NoResult == [kind |-> "none", text |-> "", chars |-> <<>>]

\* property identifiers
Unit4BNelayanReefApartment ==
    << "U","n","i","t","4","B","N","e","l","a","y","a","n","R","e","e","f",
       "A","p","a","r","t","m","e","n","t" >>
MyDubaiProperty == << "M","y","D","u","b","a","i","P","r","o","p","e","r","t","y" >>
\* default of get_llm_response's property_id, line 106
TheCurrentProperty ==
    << "t","h","e"," ","c","u","r","r","e","n","t"," ","p","r","o","p","e","r","t","y" >>

PropertyIdArgs ==
    { None, Str(<<>>), Str(Unit4BNelayanReefApartment), Str(MyDubaiProperty),
      Str(TheCurrentProperty) }

---------------------------------------------------------------------------
(* The vector store, as query_pinecone sees it *)

\* a match of a query response: the metadata key may be absent, null or a
\* dict; a dict may lack the text key; the text may be any value
Match(meta, pid, hasText, txt) ==
    [metadata |-> meta, propertyId |-> pid, has_text |-> hasText, text |-> txt]

StoreRecords ==
    { Match("dict", Unit4BNelayanReefApartment, TRUE, Str(<<"w","i","f","i">>)),
      Match("dict", Unit4BNelayanReefApartment, TRUE, Str(<<" ">>)),
      Match("dict", Unit4BNelayanReefApartment, FALSE, None),
      Match("dict", Unit4BNelayanReefApartment, TRUE, Num),
      Match("dict", MyDubaiProperty, TRUE, Str(<<"p","o","o","l">>)),
      Match("dict", <<>>, TRUE, Str(<<"k","e","y">>)),
      Match("null", <<>>, FALSE, None),
      Match("absent", <<>>, FALSE, None) }

\* the sequences of at most n distinct elements of S
RECURSIVE Arrangements(_, _)
Arrangements(S, n) ==
    IF n = 0 THEN { <<>> }
    ELSE LET shorter == Arrangements(S, n - 1)
         IN  shorter \cup
             { Append(a, x) : a \in { b \in shorter : Len(b) = n - 1 }, x \in S }

Range(f) == { f[i] : i \in DOMAIN f }

Ranked(S, n) == { a \in Arrangements(S, n) : Cardinality(Range(a)) = Len(a) }

NoParams == [sent |-> FALSE, top_k |-> 0, has_filter |-> FALSE, filter |-> <<>>]

\* lines 86-95: the filter is added when property_id_filter is truthy
QueryParams(top_k, property_id_filter) ==
    [ sent       |-> TRUE,
      top_k      |-> top_k,
      has_filter |-> Truthy(property_id_filter),
      filter     |-> IF Truthy(property_id_filter) THEN property_id_filter.v ELSE <<>> ]

NoStoreResponse == [kind |-> "none", matches |-> <<>>]

\* line 98, pinecone_index.query: the store fails, answers without a matches
\* key, or ranks at most top_k of the records that pass the filter
StoreResponses(params) ==
    LET passing == IF params.has_filter
                   THEN { r \in StoreRecords :
                             r.metadata = "dict" /\ r.propertyId = params.filter }
                   ELSE StoreRecords
    IN  { [kind |-> "error", matches |-> <<>>],
          [kind |-> "no_matches_key", matches |-> <<>>] }
        \cup { [kind |-> "matches", matches |-> m] : m \in Ranked(passing, params.top_k) }

\* the texts selected by the comprehension of line 100
RECURSIVE SelectTexts(_)
SelectTexts(ms) ==
    IF ms = <<>> THEN <<>>
    ELSE (IF Head(ms).metadata # "absent" /\ Head(ms).has_text
          THEN << Head(ms).text >> ELSE <<>>) \o SelectTexts(Tail(ms))

\* line 100: 'text' in match['metadata'] raises TypeError on a null metadata
ExtractContexts(ms) ==
    IF \E i \in DOMAIN ms : ms[i].metadata = "null"
    THEN Raise("TypeError")
    ELSE Return(SelectTexts(ms))

\* lines 98-101, the body of the try block
QueryTry(resp) ==
    CASE resp.kind = "error"          -> Raise("PineconeException")
      [] resp.kind = "no_matches_key" -> Raise("KeyError")
      [] OTHER                        -> ExtractContexts(resp.matches)

\* a handler that lets the exception through
QueryExcept_Reraise(r) == r

\* lines 102-104: except Exception: return []
QueryExcept(r) == IF r.exc # "" THEN Return(<<>>) ELSE r

\* whether query_pinecone reaches the store: lines 79-84
QueryReachesStore(index, embedding) == index /\ Truthy(embedding)

\* query_pinecone, lines 77-104
query_pinecone(index, embedding, resp) ==
    IF ~index THEN Return(<<>>)
    ELSE IF ~Truthy(embedding) THEN Return(<<>>)
    ELSE QueryExcept(QueryTry(resp))

---------------------------------------------------------------------------
(* app/query_logic.py: get_embedding_for_query *)

NoEmbedding == None

\* line 67, genai.embed_content: a vector, an empty vector, a response
\* without the embedding key, or an exception
EmbedOutcomes ==
    { [kind |-> "ok", embedding |-> List(<<1, 2>>)],
      [kind |-> "ok", embedding |-> List(<<>>)],
      [kind |-> "no_embedding_key", embedding |-> None],
      [kind |-> "error", embedding |-> None] }

EmbeddingConfigured(s) == {"GOOGLE_API_KEY", "GOOGLE_EMBEDDING_MODEL_ID"} \subseteq s

\* lines 60-75: None when not configured or on any exception
get_embedding_for_query(s, outcome) ==
    IF ~EmbeddingConfigured(s) THEN None
    ELSE IF outcome.kind = "ok" THEN outcome.embedding
    ELSE None

---------------------------------------------------------------------------
(* app/query_logic.py: get_llm_response *)

\* str.lower() on the letters A-Z; every other character is kept
UpperCase == << "A","B","C","D","E","F","G","H","I","J","K","L","M",
                "N","O","P","Q","R","S","T","U","V","W","X","Y","Z" >>
LowerCase == << "a","b","c","d","e","f","g","h","i","j","k","l","m",
                "n","o","p","q","r","s","t","u","v","w","x","y","z" >>
LowerChar(c) ==
    IF \E i \in DOMAIN UpperCase : UpperCase[i] = c
    THEN LowerCase[CHOOSE i \in DOMAIN UpperCase : UpperCase[i] = c]
    ELSE c
Lower(cs) == [i \in DOMAIN cs |-> LowerChar(cs[i])]

\* Python's  sub in cs
Contains(cs, sub) ==
    \E i \in 0..(Len(cs) - Len(sub)) : SubSeq(cs, i + 1, i + Len(sub)) = sub

\* the keywords of lines 118-120 and the labels of lines 115-121
KwBali == << "b","a","l","i" >>
KwNelayan == << "n","e","l","a","y","a","n" >>
KwSeminyak == << "s","e","m","i","n","y","a","k" >>
KwUbud == << "u","b","u","d" >>
KwCanggu == << "c","a","n","g","g","u" >>
KwDubai == << "d","u","b","a","i" >>
BaliKeywords == { KwBali, KwNelayan, KwSeminyak, KwUbud, KwCanggu }
Bali == << "B","a","l","i" >>
Dubai == << "D","u","b","a","i" >>
TheCurrentLocation ==
    << "t","h","e"," ","c","u","r","r","e","n","t"," ","l","o","c","a","t","i","o","n" >>

\* lines 115-121 with the test for "dubai" made first
CityName_DubaiFirst(pid) ==
    IF ~Truthy(pid) THEN TheCurrentLocation
    ELSE LET pid_lower == Lower(pid.v)
         IN  IF Contains(pid_lower, KwDubai) THEN Dubai
             ELSE IF \E kw \in BaliKeywords : Contains(pid_lower, kw) THEN Bali
             ELSE TheCurrentLocation

\* lines 115-121: city_name
CityName(pid) ==
    IF ~Truthy(pid) THEN TheCurrentLocation
    ELSE LET pid_lower == Lower(pid.v)
         IN  IF \/ Contains(pid_lower, KwBali)
                \/ Contains(pid_lower, KwNelayan)
                \/ Contains(pid_lower, KwSeminyak)
                \/ Contains(pid_lower, KwUbud)
                \/ Contains(pid_lower, KwCanggu)
             THEN Bali
             ELSE IF Contains(pid_lower, KwDubai) THEN Dubai
             ELSE TheCurrentLocation

\* any(chunk.strip() for chunk in context_chunks) without the strip
HasPropertyContext_AnyChunk(context) == context # <<>>

\* line 113
HasPropertyContext(context) ==
    /\ context # <<>>
    /\ \E i \in DOMAIN context : Strip(context[i].v) # <<>>

\* "\n\n---\n\n"
ChunkSeparator == << "\n", "\n", "-", "-", "-", "\n", "\n" >>

\* line 112: "\n\n---\n\n".join(context_chunks)
RECURSIVE JoinChunks(_)
JoinChunks(context) ==
    IF context = <<>> THEN <<>>
    ELSE IF Len(context) = 1 THEN context[1].v
    ELSE context[1].v \o ChunkSeparator \o JoinChunks(Tail(context))

\* one element of prompt_parts: which instruction it is, and the text put into it
Part(tag) == [tag |-> tag, body |-> <<>>]

GroundedTags == {"answer_only_from_context", "say_when_not_in_context", "context_block"}
GeneralTags == {"no_property_information", "local_expert", "no_information_on_topic"}

\* lines 125-160
ComposePrompt(context, pid) ==
    << Part("persona") >>
    \o (IF Truthy(pid) /\ pid # Str(TheCurrentProperty)
        THEN << Part("assisting_guest_at_property") >> ELSE <<>>)
    \o (IF HasPropertyContext(context)
        THEN << Part("answer_only_from_context"),
                Part("say_when_not_in_context"),
                [tag |-> "context_block", body |-> JoinChunks(context)] >>
        ELSE << Part("no_property_information"),
                [tag |-> "local_expert", body |-> CityName(pid)],
                Part("no_information_on_topic") >>)
    \o << Part("no_fabrication"), Part("guest_question"), Part("answer_cue") >>

\* the body of the response of the LLM service, as response.json() gives it
Choice(hasMessage, hasContent, content) ==
    [has_message |-> hasMessage, has_content |-> hasContent, content |-> content]
Json(jtype, hasChoices, choices) ==
    [jtype |-> jtype, has_choices |-> hasChoices, choices |-> choices]
NoJson == Json("none", FALSE, <<>>)

JsonBodies ==
    { Json("null", FALSE, <<>>),
      Json("empty_object", FALSE, <<>>),
      Json("number", FALSE, <<>>),
      Json("object", FALSE, <<>>),
      Json("object", TRUE, <<>>),
      Json("object", TRUE, << Choice(FALSE, FALSE, None) >>),
      Json("object", TRUE, << Choice(TRUE, FALSE, None) >>),
      Json("object", TRUE, << Choice(TRUE, TRUE, None) >>),
      Json("object", TRUE, << Choice(TRUE, TRUE, Str(<<>>)) >>),
      Json("object", TRUE, << Choice(TRUE, TRUE, Str(<<" ", "o", "k", "\n">>)),
                              Choice(TRUE, TRUE, Str(<<"n", "o">>)) >>) }

\* the exception classes that derive from requests.exceptions.RequestException
RequestExceptions == {"Timeout", "ConnectionError", "HTTPError", "JSONDecodeError"}

NoLlmOutcome == [kind |-> "none", exc |-> "", body |-> NoJson]

\* lines 182-189: the POST times out, fails in transport, raise_for_status
\* raises, response.json() raises (requests.exceptions.JSONDecodeError or,
\* with an older requests, a plain ValueError), or a JSON body arrives
LlmOutcomes ==
    { [kind |-> "raises", exc |-> e, body |-> NoJson] :
         e \in {"Timeout", "ConnectionError", "HTTPError", "JSONDecodeError", "ValueError"} }
    \cup { [kind |-> "json", exc |-> "", body |-> b] : b \in JsonBodies }

\* lines 182-197, the body of the try block
LlmTry(outcome) ==
    IF outcome.kind = "raises" THEN Raise(outcome.exc)
    ELSE LET j == outcome.body
         IN  IF j.jtype \in {"null", "empty_object"}
             THEN Return(Apology(ApologyUnusual))
             ELSE IF j.jtype = "number" THEN Raise("TypeError")
             ELSE IF ~j.has_choices \/ Len(j.choices) = 0
             THEN Return(Apology(ApologyUnusual))
             ELSE LET c == j.choices[1]
                  IN  IF ~c.has_message \/ ~c.has_content THEN Raise("KeyError")
                      ELSE IF c.content.t # "str" THEN Raise("AttributeError")
                      ELSE Return(Answer(Strip(c.content.v)))

\* handlers in the other order: except Exception first
LlmExcept_GenericFirst(r) ==
    IF r.exc = "" THEN r ELSE Return(Apology(ApologyUnexpected))

\* lines 199-207
LlmExcept(r) ==
    IF r.exc = "" THEN r
    ELSE IF r.exc \in RequestExceptions THEN Return(Apology(ApologyCommunication))
    ELSE Return(Apology(ApologyUnexpected))

LlmConfigured(s) == {"OPENROUTER_API_KEY", "OPENROUTER_MODEL_NAME"} \subseteq s

\* whether get_llm_response gets as far as the POST: line 108, and line 112
\* (str.join raises TypeError on an item that is not a string)
LlmReachesPost(s, context) ==
    /\ LlmConfigured(s)
    /\ \A i \in DOMAIN context : context[i].t = "str"

\* get_llm_response, lines 106-207: the exception that escapes, the string
\* returned and the prompt built
get_llm_response(s, context, pid, outcome) ==
    IF ~LlmConfigured(s)
    THEN [exc |-> "", value |-> Apology(ApologyBrain), prompt |-> <<>>, city |-> <<>>]
    ELSE IF \E i \in DOMAIN context : context[i].t # "str"
    THEN [exc |-> "TypeError", value |-> NoResult, prompt |-> <<>>, city |-> <<>>]
    ELSE [exc |-> "", value |-> LlmExcept(LlmTry(outcome)).value,
          prompt |-> ComposePrompt(context, pid), city |-> CityName(pid)]

---------------------------------------------------------------------------
(* scripts/vectorize.py: configuration and sanitize_property_id *)

\* lines 23-28: the settings process_and_upload_data requires besides
\* PINECONE_ENVIRONMENT; PINECONE_INDEX_NAME defaults to "lucy" and is
\* always set
IngestKeys == {"PINECONE_API_KEY", "GOOGLE_API_KEY"}

\* values of PINECONE_ENVIRONMENT: unset, "AWS-us", "gcp-starter", "gcp-eu",
\* "azure-", "us-west1-gcp"
EnvironmentArgs ==
    { None,
      Str(<< "A","W","S","-","u","s" >>),
      Str(<< "g","c","p","-","s","t","a","r","t","e","r" >>),
      Str(<< "g","c","p","-","e","u" >>),
      Str(<< "a","z","u","r","e","-" >>),
      Str(<< "u","s","-","w","e","s","t","1","-","g","c","p" >>) }

Starter == << "s","t","a","r","t","e","r" >>

\* str.startswith
StartsWith(cs, prefix) ==
    Len(cs) >= Len(prefix) /\ SubSeq(cs, 1, Len(prefix)) = prefix

NoSpec == [kind |-> "none", cloud |-> "", region |-> <<>>, environment |-> <<>>]
ServerlessSpec(cloud, region) ==
    [kind |-> "serverless", cloud |-> cloud, region |-> region, environment |-> <<>>]
PodSpec(environment) ==
    [kind |-> "pod", cloud |-> "", region |-> <<>>, environment |-> environment]

\* lines 157-177: the spec of the index to create, NoSpec when the
\* environment string gives none
SpecOfEnvironment(environment) ==
    LET env_lower == Lower(environment)
        aws == << "a","w","s","-" >>
        gcp == << "g","c","p","-" >>
        azure == << "a","z","u","r","e","-" >>
        provider ==
            IF StartsWith(env_lower, aws) THEN << "aws", aws >>
            ELSE IF StartsWith(env_lower, gcp) /\ ~Contains(env_lower, Starter)
            THEN << "gcp", gcp >>
            ELSE IF StartsWith(env_lower, azure) THEN << "azure", azure >>
            ELSE << "", <<>> >>
        \* env_lower.split(prefix, 1)[1]
        region == SubSeq(env_lower, Len(provider[2]) + 1, Len(env_lower))
    IN  IF provider[1] # "" /\ region # <<>>
        THEN ServerlessSpec(provider[1], region)
        ELSE IF Contains(env_lower, Starter) THEN PodSpec(environment)
        ELSE NoSpec

\* str.replace(old, ""): occurrences are removed left to right
RECURSIVE Remove(_, _)
Remove(cs, old) ==
    IF Len(cs) < Len(old) THEN cs
    ELSE IF SubSeq(cs, 1, Len(old)) = old
    THEN Remove(SubSeq(cs, Len(old) + 1, Len(cs)), old)
    ELSE << Head(cs) >> \o Remove(Tail(cs), old)

DigitChars == << "0","1","2","3","4","5","6","7","8","9" >>

\* \w of line 123, over the characters of the model
WordChars ==
    { UpperCase[i] : i \in DOMAIN UpperCase } \cup
    { LowerCase[i] : i \in DOMAIN LowerCase } \cup
    { DigitChars[i] : i \in DOMAIN DigitChars } \cup { "_" }

\* re.sub(r'[^\w\-]', '_', s)
ReplaceSpecial(cs) ==
    [i \in DOMAIN cs |-> IF cs[i] \in WordChars \cup {"-"} THEN cs[i] ELSE "_"]

\* re.sub(r'_+', '_', s)
RECURSIVE CollapseUnderscores(_)
CollapseUnderscores(cs) ==
    IF Len(cs) < 2 THEN cs
    ELSE IF cs[1] = "_" /\ cs[2] = "_" THEN CollapseUnderscores(Tail(cs))
    ELSE << Head(cs) >> \o CollapseUnderscores(Tail(cs))

\* str.strip('_')
RECURSIVE StripUnderscores(_)
StripUnderscores(cs) ==
    IF cs = <<>> THEN <<>>
    ELSE IF Head(cs) = "_" THEN StripUnderscores(Tail(cs))
    ELSE IF cs[Len(cs)] = "_" THEN StripUnderscores(SubSeq(cs, 1, Len(cs) - 1))
    ELSE cs

DotTxt == << ".","t","x","t" >>

\* lines 118-128
sanitize_property_id(filename) ==
    StripUnderscores(CollapseUnderscores(ReplaceSpecial(Remove(filename, DotTxt))))

\* str.endswith
EndsWith(cs, suffix) ==
    Len(cs) >= Len(suffix)
    /\ SubSeq(cs, Len(cs) - Len(suffix) + 1, Len(cs)) = suffix

\* str(n) for n >= 0
RECURSIVE IntToChars(_)
IntToChars(n) ==
    IF n < 10 THEN << DigitChars[n + 1] >>
    ELSE IntToChars(n \div 10) \o << DigitChars[(n % 10) + 1] >>

\* line 276: f"{meta_item['property_id']}_chunk_{meta_item['chunk_index']}"
VectorId(pid, chunk_index) ==
    pid \o << "_","c","h","u","n","k","_" >> \o IntToChars(chunk_index)

---------------------------------------------------------------------------
(* scripts/vectorize.py: embeddings, vector records and the vector store *)

(* Program constants *)

\* line 34 (and line 39 for the default model)
EMBEDDING_DIMENSIONS == 768
\* lines 42-43
BATCH_SIZE_GOOGLE_EMBEDDING == 100
BATCH_SIZE_PINECONE_UPSERT == 100
\* line 186
TIMEOUT_SECONDS == 300
CHECK_INTERVAL == 10

\* an item of response['embedding']: a list (its length, whether all its
\* values are floats, the text it embeds), None, or a value of another type
NoneEmbedding == [t |-> "none", len |-> 0, floats |-> FALSE, of |-> <<>>]
OtherEmbedding == [t |-> "num", len |-> 0, floats |-> FALSE, of |-> <<>>]
Embedding(txt, n, floats) == [t |-> "list", len |-> n, floats |-> floats, of |-> txt]
EmbeddingOf(txt) == Embedding(txt, EMBEDDING_DIMENSIONS, TRUE)

\* items the service may send in the place of the embedding of txt
BadItems(txt) ==
    { OtherEmbedding, NoneEmbedding,
      Embedding(txt, EMBEDDING_DIMENSIONS, FALSE),
      Embedding(txt, 0, TRUE),
      Embedding(txt, EMBEDDING_DIMENSIONS - 1, TRUE) }

\* what genai.embed_content answers: response['embedding'] is a list
EmbedList(items) == [kind |-> "list", embedding |-> items]

AllEmbedded(texts) == [i \in DOMAIN texts |-> EmbeddingOf(texts[i])]

\* the responses to a batch: one embedding per text; the same with the first
\* or the last item replaced; one embedding short at either end; one too many;
\* no 'embedding' list; an exception
EmbedResponses(texts) ==
    LET full == AllEmbedded(texts)
        n == Len(texts)
    IN  { EmbedList(full), EmbedList(SubSeq(full, 1, n - 1)), EmbedList(Tail(full)),
          EmbedList(Append(full, EmbeddingOf(<< <<>>, 0 >>))),
          [kind |-> "no_embedding", embedding |-> <<>>],
          [kind |-> "raise", embedding |-> <<>>] }
        \cup UNION { { EmbedList([full EXCEPT ![k] = bad]) : bad \in BadItems(texts[k]) } :
                       k \in {1, n} }

\* line 84: isinstance(emb, list) and all(isinstance(val, float) for val in emb)
IsListOfFloats(emb) == emb.t = "list" /\ emb.floats

\* lines 69-95
get_google_embeddings_batch(google_api_key, texts, response) ==
    IF ~google_api_key THEN [i \in DOMAIN texts |-> NoneEmbedding]
    ELSE IF texts = <<>> THEN <<>>
    ELSE IF response.kind = "list"
    THEN [i \in DOMAIN response.embedding |->
             IF IsListOfFloats(response.embedding[i])
             THEN response.embedding[i] ELSE NoneEmbedding]
    ELSE [i \in DOMAIN texts |-> NoneEmbedding]

\* line 275 without the test of the length
ValidVector_AnyLength(vector_values) ==
    /\ vector_values.t = "list" /\ vector_values.len # 0

\* line 275: vector_values and isinstance(vector_values, list)
\*           and len(vector_values) == EMBEDDING_DIMENSIONS
ValidVector(vector_values) ==
    /\ vector_values.t = "list" /\ vector_values.len # 0
    /\ vector_values.len = EMBEDDING_DIMENSIONS

\* lines 277-285
VectorRecord(meta_item, vector_values) ==
    [id |-> VectorId(meta_item.property_id, meta_item.chunk_index),
     values |-> vector_values,
     metadata |-> [propertyId |-> meta_item.property_id,
                   text |-> meta_item.text,
                   original_file |-> meta_item.original_file]]

\* lines 274-286: zip(batch_metadata, embeddings_batch) stops at the shorter
\* list; the records of the pairs that pass the test of line 275, in order
ZipValid(batch_metadata, embeddings) ==
    LET zip == [i \in 1..Min(Len(batch_metadata), Len(embeddings)) |->
                   << batch_metadata[i], embeddings[i] >>]
        kept == SelectSeq(zip, LAMBDA pair : ValidVector(pair[2]))
    IN  [i \in DOMAIN kept |-> VectorRecord(kept[i][1], kept[i][2])]

\* the embedding zip pairs with each chunk of the batch; a chunk beyond the
\* end of the returned list is paired with nothing
Unpaired == [t |-> "unpaired", len |-> 0, floats |-> FALSE, of |-> <<>>]
Pairing(batch_metadata, embeddings) ==
    [i \in DOMAIN batch_metadata |->
        IF i <= Len(embeddings) THEN embeddings[i] ELSE Unpaired]

\* the vector store: upsert writes each record under its id, a later record
\* of the batch replacing an earlier one with the same id
Upsert(store, vectors) ==
    LET ids == { vectors[i].id : i \in DOMAIN vectors }
        places(id) == { i \in DOMAIN vectors : vectors[i].id = id }
        last(id) == CHOOSE i \in places(id) : \A j \in places(id) : j <= i
    IN  [id \in DOMAIN store \cup ids |->
            IF id \in ids THEN vectors[last(id)] ELSE store[id]]

EmptyStore == [id \in {} |-> NoneEmbedding]

\* what an earlier ingestion of another document, old.txt, left in the index
PriorStore ==
    LET name == << "o","l","d",".","t","x","t" >>
        record == VectorRecord([property_id |-> sanitize_property_id(name),
                                original_file |-> name, chunk_index |-> 0,
                                text |-> << name, 0 >>],
                               EmbeddingOf(<< name, 0 >>))
    IN  Upsert(EmptyStore, << record >>)

\* the index PINECONE_INDEX_NAME of the account: readiness, as describe_index
\* reports it, sets in once ready_at seconds have passed on the clock
NoIndex == [exists |-> FALSE, dimension |-> 0, becomes_ready |-> FALSE, ready_at |-> 0]
Index(dimension, becomes_ready, ready_at) ==
    [exists |-> TRUE, dimension |-> dimension,
     becomes_ready |-> becomes_ready, ready_at |-> ready_at]
Ready(ix, now) == ix.exists /\ ix.becomes_ready /\ ix.ready_at <= now

\* the indexes the account may hold when the run starts
ExistingIndexes ==
    { NoIndex } \cup
    { Index(d, r, 0) : d \in {EMBEDDING_DIMENSIONS, 2 * EMBEDDING_DIMENSIONS},
                       r \in BOOLEAN }

\* describe_index takes no time or this many seconds
PollLatency == 5

\* when a created index becomes ready: at once, shortly before and shortly
\* after the timeout, well after it, never
CreatedIndexes ==
    { Index(EMBEDDING_DIMENSIONS, TRUE, t) :
        t \in { 0, TIMEOUT_SECONDS - PollLatency, TIMEOUT_SECONDS + PollLatency,
                TIMEOUT_SECONDS + 3 * CHECK_INTERVAL } }
    \cup { Index(EMBEDDING_DIMENSIONS, FALSE, 0) }

\* the files of PROPERTY_DATA_FOLDER: name, whether it can be read, and the
\* number of chunks chunk_text makes of its content
File(name, readable, nchunks) ==
    [name |-> name, readable |-> readable, nchunks |-> nchunks]

\* the big file has this many chunks
BigFileChunks == 101

\* an empty folder; "My Place.txt", "My_Place.txt" and "notes.md";
\* "villa-2.txt", "empty.txt" (no chunk) and "locked.txt" (cannot be read)
SmallFolders ==
    { {},
      { File(<< "M","y"," ","P","l","a","c","e",".","t","x","t" >>, TRUE, 2),
        File(<< "M","y","_","P","l","a","c","e",".","t","x","t" >>, TRUE, 1),
        File(<< "n","o","t","e","s",".","m","d" >>, TRUE, 1) },
      { File(<< "v","i","l","l","a","-","2",".","t","x","t" >>, TRUE, 2),
        File(<< "e","m","p","t","y",".","t","x","t" >>, TRUE, 0),
        File(<< "l","o","c","k","e","d",".","t","x","t" >>, FALSE, 1) } }
\* "big.txt"
BigFolders == { { File(<< "b","i","g",".","t","x","t" >>, TRUE, BigFileChunks) } }

\* os.listdir: the files in some order
Listings(files) ==
    { l \in [1..Cardinality(files) -> files] :
        \A i, j \in 1..Cardinality(files) : l[i] = l[j] => i = j }

\* lines 242-254: the chunks of one file with their metadata; the text of a
\* chunk is told apart by its file and position
FileChunks(file) ==
    [i \in 1..file.nchunks |->
        [property_id |-> sanitize_property_id(file.name),
         original_file |-> file.name,
         chunk_index |-> i - 1,
         text |-> << file.name, i - 1 >>]]

\* lines 226-254: the loop over the listing
RECURSIVE CollectChunks(_)
CollectChunks(listing) ==
    IF listing = <<>> THEN <<>>
    ELSE LET file == Head(listing)
         IN  (IF EndsWith(file.name, DotTxt) /\ file.readable
              THEN FileChunks(file) ELSE <<>>)
             \o CollectChunks(Tail(listing))

---------------------------------------------------------------------------
(* app/query_logic.py: ask_lucy and the calls of the module's functions *)

IngestIdle ==
    /\ ingest_settings = {}
    /\ environment_config = None
    /\ pc_client = FALSE
    /\ account_index = NoIndex
    /\ index_log = <<>>
    /\ clock = 0
    /\ reported_ready = FALSE
    /\ folder = [exists |-> FALSE, files |-> {}]
    /\ all_files_chunks_with_metadata = <<>>
    /\ embed_from = 0
    /\ embeddings_batch = <<>>
    /\ paired = <<>>
    /\ vectors_to_upsert = <<>>
    /\ upsert_from = 0
    /\ upsert_log = <<>>
    /\ vstore = EmptyStore
    /\ ipc = "off"
    /\ run_outcome = ""
    /\ first_run = [ran |-> FALSE, outcome |-> "", succeeded |-> FALSE, ids |-> {},
                    store |-> EmptyStore]

ChunkIdle ==
    /\ text = <<>>
    /\ max_chunk_length_chars = 0
    /\ overlap = 0
    /\ start_index = 0
    /\ end_index = 0
    /\ chunks = <<>>
    /\ cpc = "off"
    /\ chunk_result = <<>>

\* lines 21-47: the settings the environment sets; the index handle exists
\* only if the Pinecone settings are set and the index was found
Init ==
    /\ settings \in SUBSET RequiredSettings
    /\ pinecone_index \in BOOLEAN
    /\ pinecone_index => {"PINECONE_API_KEY", "PINECONE_INDEX_NAME"} \subseteq settings
    /\ entry = "none"
    /\ pc = "idle"
    /\ property_id = None
    /\ query_embedding = NoEmbedding
    /\ query_params = NoParams
    /\ store_response = NoStoreResponse
    /\ context_chunks = <<>>
    /\ llm_outcome = NoLlmOutcome
    /\ prompt = <<>>
    /\ city_name = <<>>
    /\ calls = <<>>
    /\ result = NoResult
    /\ raised = ""
    /\ ChunkIdle
    /\ IngestIdle

\* the checks without the index check
AskLucyPrecheck_ConfigOnly(s, index) ==
    IF ~(RequiredSettings \subseteq s) THEN "not_configured" ELSE "ok"

\* lines 215-220
AskLucyPrecheck(s, index) ==
    IF ~(RequiredSettings \subseteq s) THEN "not_configured"
    ELSE IF ~index THEN "no_index"
    ELSE "ok"

\* ask_lucy(question, property_id), lines 210-220
AskLucy ==
    /\ pc = "idle"
    /\ \E pid \in PropertyIdArgs :
          LET check == AskLucyPrecheck(settings, pinecone_index)
          IN  /\ entry' = "ask_lucy"
              /\ property_id' = pid
              /\ result' = CASE check = "not_configured" -> Apology(ApologyNotConfigured)
                             [] check = "no_index"       -> Apology(ApologyNoDatabase)
                             [] OTHER                    -> result
              /\ pc' = IF check = "ok" THEN "embed" ELSE "done"
    /\ UNCHANGED << city_name, settings, pinecone_index, query_embedding, query_params,
                    store_response, context_chunks, llm_outcome, prompt, calls, raised >>
    /\ UNCHANGED << cvars, ivars >>

\* lines 222-224: embed the question, give up when there is no embedding
GetEmbeddingForQuery ==
    /\ pc = "embed"
    /\ \E outcome \in EmbedOutcomes :
          LET emb == get_embedding_for_query(settings, outcome)
          IN  /\ query_embedding' = emb
              /\ calls' = IF EmbeddingConfigured(settings)
                          THEN Append(calls, "embed") ELSE calls
              /\ IF ~Truthy(emb)
                 THEN /\ result' = Apology(ApologyRephrase)
                      /\ pc' = "done"
                 ELSE /\ result' = result
                      /\ pc' = "query"
    /\ UNCHANGED << city_name, settings, pinecone_index, entry, property_id, query_params,
                    store_response, context_chunks, llm_outcome, prompt, raised >>
    /\ UNCHANGED << cvars, ivars >>

\* query_pinecone(query_embedding, top_k, property_id_filter) called on its own
CallQueryPinecone ==
    /\ pc = "idle"
    /\ \E emb \in {None, List(<<>>), List(<<1, 2>>)}, pid \in PropertyIdArgs :
          /\ query_embedding' = emb
          /\ property_id' = pid
    /\ entry' = "query_pinecone"
    /\ pc' = "query"
    /\ UNCHANGED << city_name, settings, pinecone_index, query_params, store_response,
                    context_chunks, llm_outcome, prompt, calls, result, raised >>
    /\ UNCHANGED << cvars, ivars >>

\* query_pinecone, lines 77-104 (line 228 in ask_lucy)
QueryPinecone ==
    /\ pc = "query"
    /\ LET reaches == QueryReachesStore(pinecone_index, query_embedding)
           params  == QueryParams(TOP_K, property_id)
       IN  \E resp \in (IF reaches THEN StoreResponses(params) ELSE {NoStoreResponse}) :
              LET r == query_pinecone(pinecone_index, query_embedding, resp)
              IN  /\ query_params' = IF reaches THEN params ELSE query_params
                  /\ store_response' = resp
                  /\ calls' = IF reaches THEN Append(calls, "vector_query") ELSE calls
                  /\ context_chunks' = r.value
                  /\ raised' = r.exc
                  /\ pc' = IF r.exc # "" \/ entry # "ask_lucy" THEN "done" ELSE "llm"
    /\ UNCHANGED << city_name, settings, pinecone_index, entry, property_id, query_embedding,
                    llm_outcome, prompt, result >>
    /\ UNCHANGED << cvars, ivars >>

\* the chunks a caller may hand to get_llm_response
ChunkArgs ==
    { Str(<<>>), Str(<<" ">>), Str(<<" ", "a", " ">>), Str(<<"b">>), Num }

\* the sequences over S of length at most n
RECURSIVE SeqsUpTo(_, _)
SeqsUpTo(S, n) ==
    IF n = 0 THEN { <<>> }
    ELSE LET shorter == SeqsUpTo(S, n - 1)
         IN  shorter \cup
             { Append(a, x) : a \in { b \in shorter : Len(b) = n - 1 }, x \in S }

\* get_llm_response(question, context_chunks, property_id) called on its own
CallGetLlmResponseWith(contexts, pids) ==
    /\ pc = "idle"
    /\ context_chunks' \in contexts
    /\ property_id' \in pids
    /\ entry' = "get_llm_response"
    /\ pc' = "llm"
    /\ UNCHANGED << city_name, settings, pinecone_index, query_embedding, query_params,
                    store_response, llm_outcome, prompt, calls, result, raised >>
    /\ UNCHANGED << cvars, ivars >>

\* get_llm_response, lines 106-207 (line 236 in ask_lucy)
GetLlmResponse ==
    /\ pc = "llm"
    /\ LET reaches == LlmReachesPost(settings, context_chunks)
       IN  \E outcome \in (IF reaches THEN LlmOutcomes ELSE {NoLlmOutcome}) :
              LET r == get_llm_response(settings, context_chunks, property_id, outcome)
              IN  /\ llm_outcome' = outcome
                  /\ calls' = IF reaches THEN Append(calls, "llm") ELSE calls
                  /\ prompt' = r.prompt
                  /\ city_name' = r.city
                  /\ result' = r.value
                  /\ raised' = r.exc
    /\ pc' = "done"
    /\ UNCHANGED << settings, pinecone_index, entry, property_id, query_embedding,
                    query_params, store_response, context_chunks >>
    /\ UNCHANGED << cvars, ivars >>

CallGetLlmResponse ==
    CallGetLlmResponseWith(SeqsUpTo(ChunkArgs, MaxChunks), PropertyIdArgs)

Next ==
    \/ AskLucy
    \/ GetEmbeddingForQuery
    \/ CallQueryPinecone
    \/ QueryPinecone
    \/ CallGetLlmResponse
    \/ GetLlmResponse

Spec == Init /\ [][Next]_vars

---------------------------------------------------------------------------
(* get_llm_response over identifiers built from words, for the locality    *)
(* label of lines 115-121                                                  *)

\* an identifier is at most this many words long
MaxIdWords == 2

IdWords ==
    { << "B","A","L","I" >>, << "N","e","l","a","y","a","n" >>,
      << "s","e","m","i","n","y","a","K" >>, << "U","b","u","d" >>,
      << "C","A","N","G","G","U" >>, << "D","u","b","a","i" >>,
      << "b","a" >>, << "L","i" >> }

RECURSIVE Concat(_)
Concat(words) ==
    IF words = <<>> THEN <<>> ELSE Head(words) \o Concat(Tail(words))

LocalityIdArgs ==
    {None} \cup { Str(Concat(ws)) : ws \in SeqsUpTo(IdWords, MaxIdWords) }

\* with no context, and with a context that is not blank
CallGetLlmResponseWithId ==
    CallGetLlmResponseWith({ <<>>, << Str(<< "b" >>) >> }, LocalityIdArgs)

NextLocality ==
    \/ CallGetLlmResponseWithId
    \/ GetLlmResponse

SpecLocality == Init /\ [][NextLocality]_vars

---------------------------------------------------------------------------
(* scripts/vectorize.py: chunk_text *)

\* the texts tried: every length up to MaxTextLen in a few shapes
TextShapes == {"solid", "blank", "padded", "alternating", "words"}

MakeText(shape, n, pad) ==
    [i \in 1..n |->
        CASE shape = "solid"       -> "a"
          [] shape = "blank"       -> " "
          [] shape = "padded"      -> IF i <= pad \/ i > n - pad THEN " " ELSE "a"
          [] shape = "alternating" -> IF i % 2 = 0 THEN "a" ELSE "b"
          [] OTHER                 -> IF i % 4 = 0 THEN " " ELSE "a"]

MaxLenArgs == (1..SmallMaxLen) \cup ((MIN_CHUNK_CHARS + 1)..(MIN_CHUNK_CHARS + WideMaxLen))
OverlapArgs == 0..MaxOverlap

\* the loop is cut after this many windows: it only binds when the step
\* max_chunk_length_chars - overlap is not positive
MaxWindows == MaxTextLen + 2

QueryIdle ==
    /\ settings = {}
    /\ pinecone_index = FALSE
    /\ entry = "none"
    /\ pc = "off"
    /\ property_id = None
    /\ query_embedding = NoEmbedding
    /\ query_params = NoParams
    /\ store_response = NoStoreResponse
    /\ context_chunks = <<>>
    /\ llm_outcome = NoLlmOutcome
    /\ prompt = <<>>
    /\ city_name = <<>>
    /\ calls = <<>>
    /\ result = NoResult
    /\ raised = ""

InitChunk ==
    /\ QueryIdle
    /\ IngestIdle
    /\ \E shape \in TextShapes, n \in 0..MaxTextLen, pad \in 1..MaxPad :
           text = MakeText(shape, n, pad)
    /\ max_chunk_length_chars \in MaxLenArgs
    /\ overlap \in OverlapArgs
    /\ start_index = 0
    /\ end_index = 0
    /\ chunks = <<>>
    /\ cpc = "call"
    /\ chunk_result = <<>>

\* lines 99-104: the two early returns, else enter the loop
ChunkTextEntry ==
    /\ cpc = "call"
    /\ IF Len(text) = 0
       THEN /\ chunk_result' = <<>>
            /\ cpc' = "done"
       ELSE IF Len(text) <= max_chunk_length_chars
       THEN /\ chunk_result' = << Strip(text) >>
            /\ cpc' = "done"
       ELSE /\ chunk_result' = chunk_result
            /\ cpc' = "loop"
    /\ start_index' = 0
    /\ UNCHANGED << text, max_chunk_length_chars, overlap, end_index, chunks >>
    /\ UNCHANGED << qvars, ivars >>

\* a loop that advances by the window width, forgetting the overlap
NextStart_NoOverlap(start, e, len, maxlen, ov) ==
    IF e = len THEN [start |-> start, exit |-> TRUE]
    ELSE LET s2 == start + maxlen
         IN  [start |-> s2, exit |-> s2 >= len]

\* where the loop goes after a window [start, e): lines 109-111 and the
\* while test of line 105
NextStart(start, e, len, maxlen, ov) ==
    IF e = len THEN [start |-> start, exit |-> TRUE]
    ELSE LET s2 == start + (maxlen - ov)
         IN  [start |-> s2, exit |-> s2 >= len]

\* lines 105-111: one iteration of the while loop
ChunkTextLoop ==
    /\ cpc = "loop"
    /\ Len(chunks) < MaxWindows
    /\ IF start_index < Len(text)
       THEN LET e  == Min(start_index + max_chunk_length_chars, Len(text))
                nx == NextStart(start_index, e, Len(text), max_chunk_length_chars, overlap)
            IN  /\ end_index' = e
                /\ chunks' = Append(chunks, PySlice(text, start_index, e))
                /\ start_index' = nx.start
                /\ cpc' = IF nx.exit THEN "post" ELSE "loop"
       ELSE /\ cpc' = "post"
            /\ UNCHANGED << end_index, chunks, start_index >>
    /\ UNCHANGED << text, max_chunk_length_chars, overlap, chunk_result >>
    /\ UNCHANGED << qvars, ivars >>

\* lines 113-115: strip, drop short chunks, deduplicate, return
ChunkTextPost ==
    /\ cpc = "post"
    /\ chunk_result' = DictFromKeys(StripAndFilter(chunks), {})
    /\ cpc' = "done"
    /\ UNCHANGED << text, max_chunk_length_chars, overlap, start_index, end_index, chunks >>
    /\ UNCHANGED << qvars, ivars >>

NextChunk == ChunkTextEntry \/ ChunkTextLoop \/ ChunkTextPost

SpecChunk == InitChunk /\ [][NextChunk]_vars

---------------------------------------------------------------------------
(* scripts/vectorize.py: process_and_upload_data *)

NoFolder == [exists |-> FALSE, files |-> {}]
Folder(files) == [exists |-> TRUE, files |-> files]

InitIngestOver(folders) ==
    /\ QueryIdle
    /\ ChunkIdle
    /\ ingest_settings \in SUBSET IngestKeys
    /\ environment_config \in EnvironmentArgs
    /\ pc_client \in BOOLEAN
    /\ pc_client => "PINECONE_API_KEY" \in ingest_settings
    /\ account_index \in ExistingIndexes
    /\ vstore = IF account_index.exists THEN PriorStore ELSE EmptyStore
    /\ folder \in {NoFolder} \cup { Folder(fs) : fs \in folders }
    /\ index_log = <<>>
    /\ clock = 0
    /\ reported_ready = FALSE
    /\ all_files_chunks_with_metadata = <<>>
    /\ embed_from = 0
    /\ embeddings_batch = <<>>
    /\ paired = <<>>
    /\ vectors_to_upsert = <<>>
    /\ upsert_from = 0
    /\ upsert_log = <<>>
    /\ run_outcome = ""
    /\ first_run = [ran |-> FALSE, outcome |-> "", succeeded |-> FALSE, ids |-> {},
                    store |-> EmptyStore]
    /\ ipc = "start"

InitIngest == InitIngestOver(SmallFolders \cup BigFolders)

\* a return of process_and_upload_data
End(reason) ==
    /\ ipc' = "done"
    /\ run_outcome' = reason

\* lines 133-152: the configuration check, the client check and list_indexes
CheckConfiguration ==
    /\ ipc = "start"
    /\ IF ~(IngestKeys \subseteq ingest_settings /\ Truthy(environment_config))
       THEN End("missing_configuration")
       ELSE IF ~pc_client
       THEN End("no_client")
       ELSE \/ End("list_indexes_failed")
            \/ /\ ipc' = IF account_index.exists THEN "describe" ELSE "create"
               /\ UNCHANGED run_outcome
    /\ UNCHANGED << ingest_settings, environment_config, pc_client, account_index, index_log,
                    clock, reported_ready, folder, all_files_chunks_with_metadata,
                    embed_from, embeddings_batch, paired, vectors_to_upsert,
                    upsert_from, upsert_log, vstore, first_run >>
    /\ UNCHANGED << qvars, cvars >>

\* lines 154-187: the spec from the environment string, create_index
CreateIndex ==
    /\ ipc = "create"
    /\ LET spec == SpecOfEnvironment(environment_config.v)
           request == [dimension |-> EMBEDDING_DIMENSIONS, spec |-> spec]
       IN  IF spec = NoSpec
           THEN /\ End("no_spec_for_environment")
                /\ UNCHANGED << account_index, index_log, vstore >>
           ELSE \/ /\ End("create_failed")
                   /\ index_log' = Append(index_log, request)
                   /\ UNCHANGED << account_index, vstore >>
                \/ /\ account_index' \in CreatedIndexes
                   /\ index_log' = Append(index_log, request)
                   /\ vstore' = EmptyStore
                   /\ ipc' = "poll"
                   /\ UNCHANGED run_outcome
    /\ UNCHANGED << ingest_settings, environment_config, pc_client, clock,
                    reported_ready, folder, all_files_chunks_with_metadata,
                    embed_from, embeddings_batch, paired, vectors_to_upsert,
                    upsert_from, upsert_log, first_run >>
    /\ UNCHANGED << qvars, cvars >>

\* lines 189-198: one round of the wait for the created index
PollIndex ==
    /\ ipc = "poll"
    /\ \/ /\ End("create_failed")
          /\ UNCHANGED << clock, reported_ready >>
       \/ \E latency \in {0, PollLatency} :
             LET now == clock + latency
             IN  IF Ready(account_index, now)
                 THEN /\ reported_ready' = TRUE
                      /\ clock' = now
                      /\ ipc' = "read"
                      /\ UNCHANGED run_outcome
                 ELSE IF now > TIMEOUT_SECONDS
                 THEN /\ End("timeout")
                      /\ clock' = now
                      /\ UNCHANGED reported_ready
                 ELSE /\ clock' = now + CHECK_INTERVAL
                      /\ UNCHANGED << ipc, run_outcome, reported_ready >>
    /\ UNCHANGED << ingest_settings, environment_config, pc_client, account_index, index_log,
                    folder, all_files_chunks_with_metadata,
                    embed_from, embeddings_batch, paired, vectors_to_upsert,
                    upsert_from, upsert_log, vstore, first_run >>
    /\ UNCHANGED << qvars, cvars >>

\* lines 205-210 without the test of the dimension
ExistingIndexFault_ReadyOnly(ix, now) ==
    IF ~Ready(ix, now) THEN "not_ready"
    ELSE ""

\* lines 205-210: what the description of the existing index is rejected
\* for ("" when it is not)
ExistingIndexFault(ix, now) ==
    IF ix.dimension # EMBEDDING_DIMENSIONS THEN "dimension_mismatch"
    ELSE IF ~Ready(ix, now) THEN "not_ready"
    ELSE ""

\* lines 200-213: the existing index is described and tested
DescribeExisting ==
    /\ ipc = "describe"
    /\ \/ /\ End("describe_failed")
          /\ UNCHANGED reported_ready
       \/ LET fault == ExistingIndexFault(account_index, clock)
          IN  IF fault # ""
              THEN /\ End(fault)
                   /\ UNCHANGED reported_ready
              ELSE /\ reported_ready' = TRUE
                   /\ ipc' = "read"
                   /\ UNCHANGED run_outcome
    /\ UNCHANGED << ingest_settings, environment_config, pc_client, account_index, index_log,
                    clock, folder, all_files_chunks_with_metadata,
                    embed_from, embeddings_batch, paired, vectors_to_upsert,
                    upsert_from, upsert_log, vstore, first_run >>
    /\ UNCHANGED << qvars, cvars >>

\* lines 218-258: the folder is listed, its .txt files are read and chunked
ReadFolder ==
    /\ ipc = "read"
    /\ IF ~folder.exists
       THEN /\ End("no_folder")
            /\ UNCHANGED all_files_chunks_with_metadata
       ELSE \E listing \in Listings(folder.files) :
               LET collected == CollectChunks(listing)
               IN  /\ all_files_chunks_with_metadata' = collected
                   /\ IF collected = <<>>
                      THEN End("no_chunks")
                      ELSE /\ ipc' = "embed"
                           /\ UNCHANGED run_outcome
    /\ UNCHANGED << ingest_settings, environment_config, pc_client, account_index, index_log,
                    clock, reported_ready, folder,
                    embed_from, embeddings_batch, paired, vectors_to_upsert,
                    upsert_from, upsert_log, vstore, first_run >>
    /\ UNCHANGED << qvars, cvars >>

\* line 265: all_files_chunks_with_metadata[i:i + BATCH_SIZE_GOOGLE_EMBEDDING]
BatchMetadata(i) ==
    PySlice(all_files_chunks_with_metadata, i, i + BATCH_SIZE_GOOGLE_EMBEDDING)
\* line 266
TextsInBatch(i) ==
    LET batch_metadata == BatchMetadata(i)
    IN  [k \in DOMAIN batch_metadata |-> batch_metadata[k].text]

\* lines 264-290: one round of the embedding loop, and the test that follows
\* the last round
EmbedBatch ==
    /\ ipc = "embed"
    /\ LET batch_metadata == BatchMetadata(embed_from)
           texts_in_batch == TextsInBatch(embed_from)
       IN  \E response \in EmbedResponses(texts_in_batch) :
              LET embeddings ==
                      get_google_embeddings_batch("GOOGLE_API_KEY" \in ingest_settings,
                                                  texts_in_batch, response)
                  vectors == vectors_to_upsert \o ZipValid(batch_metadata, embeddings)
                  i == embed_from + BATCH_SIZE_GOOGLE_EMBEDDING
              IN  /\ embeddings_batch' = embeddings
                  /\ paired' = paired \o Pairing(batch_metadata, embeddings)
                  /\ vectors_to_upsert' = vectors
                  /\ embed_from' = i
                  /\ IF i < Len(all_files_chunks_with_metadata)
                     THEN UNCHANGED << ipc, run_outcome >>
                     ELSE IF vectors = <<>>
                     THEN End("no_vectors")
                     ELSE /\ ipc' = "upsert"
                          /\ UNCHANGED run_outcome
    /\ UNCHANGED << ingest_settings, environment_config, pc_client, account_index, index_log,
                    clock, reported_ready, folder, all_files_chunks_with_metadata,
                    upsert_from, upsert_log, vstore, first_run >>
    /\ UNCHANGED << qvars, cvars >>

\* lines 293-299 with the loop left at the first failed upsert
NextUpsert_StopOnFailure(i, ok, n) ==
    IF ok THEN i + BATCH_SIZE_PINECONE_UPSERT ELSE n

\* lines 293-299: where the loop goes after a batch, the upsert having
\* succeeded or raised
NextUpsert(i, ok, n) == i + BATCH_SIZE_PINECONE_UPSERT

\* lines 293-306: one round of the upsert loop; describe_index_stats after
\* the last round
UpsertBatch ==
    /\ ipc = "upsert"
    /\ LET batch_vectors ==
               PySlice(vectors_to_upsert, upsert_from,
                       upsert_from + BATCH_SIZE_PINECONE_UPSERT)
       IN  \E ok \in BOOLEAN :
              LET i == NextUpsert(upsert_from, ok, Len(vectors_to_upsert))
              IN  /\ upsert_log' = Append(upsert_log, [vectors |-> batch_vectors, ok |-> ok])
                  /\ vstore' = IF ok THEN Upsert(vstore, batch_vectors) ELSE vstore
                  /\ upsert_from' = i
                  /\ IF i < Len(vectors_to_upsert)
                     THEN UNCHANGED << ipc, run_outcome >>
                     ELSE End("completed")
    /\ UNCHANGED << ingest_settings, environment_config, pc_client, account_index, index_log,
                    clock, reported_ready, folder, all_files_chunks_with_metadata,
                    embed_from, embeddings_batch, paired, vectors_to_upsert, first_run >>
    /\ UNCHANGED << qvars, cvars >>

NextIngest ==
    \/ CheckConfiguration
    \/ CreateIndex
    \/ PollIndex
    \/ DescribeExisting
    \/ ReadFolder
    \/ EmbedBatch
    \/ UpsertBatch

SpecIngest == InitIngest /\ [][NextIngest]_vars

\* every embedding call of the run returned the embedding of each of its
\* texts and every upsert call succeeded
CallsSucceeded ==
    /\ run_outcome = "completed"
    /\ paired = AllEmbedded([p \in DOMAIN all_files_chunks_with_metadata |->
                                all_files_chunks_with_metadata[p].text])
    /\ \A c \in DOMAIN upsert_log : upsert_log[c].ok

\* the script is run a second time, later, on the same folder, configuration
\* and account; an index that was becoming ready has become ready
RunAgain ==
    /\ ipc = "done"
    /\ ~first_run.ran
    /\ first_run' = [ran |-> TRUE, outcome |-> run_outcome,
                     succeeded |-> CallsSucceeded,
                     ids |-> { vectors_to_upsert[k].id : k \in DOMAIN vectors_to_upsert },
                     store |-> vstore]
    /\ account_index' = IF account_index.exists /\ account_index.becomes_ready
                        THEN [account_index EXCEPT !.ready_at = 0]
                        ELSE account_index
    /\ index_log' = <<>>
    /\ clock' = 0
    /\ reported_ready' = FALSE
    /\ all_files_chunks_with_metadata' = <<>>
    /\ embed_from' = 0
    /\ embeddings_batch' = <<>>
    /\ paired' = <<>>
    /\ vectors_to_upsert' = <<>>
    /\ upsert_from' = 0
    /\ upsert_log' = <<>>
    /\ run_outcome' = ""
    /\ ipc' = "start"
    /\ UNCHANGED << ingest_settings, environment_config, pc_client, folder, vstore >>
    /\ UNCHANGED << qvars, cvars >>

InitRerun == InitIngestOver(SmallFolders)

NextRerun ==
    \/ NextIngest
    \/ RunAgain

SpecRerun == InitRerun /\ [][NextRerun]_vars

---------------------------------------------------------------------------
(* Claims about chunk_text, checked under SpecChunk *)

\* chunk_text has returned
ChunkDone == cpc = "done"
\* the windowing loop has run to its end
WindowsDone == cpc \in {"post", "done"} /\ Len(text) > max_chunk_length_chars
PositiveStep == max_chunk_length_chars > overlap

\* C8 (as claimed): with maxLength > overlap >= 0 every returned string is
\* non-empty after trimming and longer than 30 characters, and a text no
\* longer than maxLength returns its trimmed self when that is longer than 30
\* characters and nothing otherwise.
C8_EveryChunkLongerThanMin ==
    (ChunkDone /\ PositiveStep) =>
        /\ \A i \in 1..Len(chunk_result) :
               /\ Strip(chunk_result[i]) # <<>>
               /\ Len(chunk_result[i]) > MIN_CHUNK_CHARS
        /\ (Len(text) <= max_chunk_length_chars) =>
               chunk_result = IF Len(Strip(text)) > MIN_CHUNK_CHARS
                              THEN << Strip(text) >> ELSE <<>>

\* C9 (as claimed): a text of length 2*maxLength - overlap + 1 gives exactly
\* 2 windows before filtering and deduplication, the last ending at len(text).
C9_TwoWindows ==
    (WindowsDone /\ PositiveStep
       /\ Len(text) = 2 * max_chunk_length_chars - overlap + 1) =>
        /\ Len(chunks) = 2
        /\ end_index = Len(text)

\* C9 (amended): a text of length 2*maxLength - overlap + 1 gives exactly 3
\* windows, the last ending at len(text); exactly 2 windows are produced for
\* the lengths maxLength+1 .. 2*maxLength - overlap.
C9_ThreeWindows ==
    (WindowsDone /\ PositiveStep) =>
        /\ (Len(text) = 2 * max_chunk_length_chars - overlap + 1) =>
               /\ Len(chunks) = 3
               /\ end_index = Len(text)
               /\ Len(chunks[3]) = 1 + overlap
        /\ (Len(text) <= 2 * max_chunk_length_chars - overlap) =>
               /\ Len(chunks) = 2
               /\ end_index = Len(text)

C9_Witness ==
    /\ cpc = "post"
    /\ overlap > 0
    /\ max_chunk_length_chars > MIN_CHUNK_CHARS
    /\ Len(text) = 2 * max_chunk_length_chars - overlap + 1
    /\ Len(chunks) = 3
    /\ end_index = Len(text)

\* C10 (as claimed): a call whose step maxLength - overlap is not positive on
\* a text longer than maxLength ends with a fatal configuration error (it
\* never enters the loop or returns chunks), and a call with a positive step
\* terminates: it makes at most len(text) windows and can always go on until
\* it has returned.
C10_NonPositiveStepIsFatal ==
    /\ (~PositiveStep /\ Len(text) > max_chunk_length_chars) =>
           cpc \in {"call", "raised"}
    /\ PositiveStep =>
           /\ Len(chunks) <= Len(text)
           /\ ChunkDone \/ ENABLED NextChunk

---------------------------------------------------------------------------
(* Claims about the query path, checked under Spec *)

AllConfigured == RequiredSettings \subseteq settings
StageOrder == << "embed", "vector_query", "llm" >>
IsPrefix(a, b) == Len(a) <= Len(b) /\ a = SubSeq(b, 1, Len(a))
Called(stage) == \E i \in DOMAIN calls : calls[i] = stage

\* the prompt carries the instructions of the grounded / general-knowledge mode
GroundedMode == \E i \in DOMAIN prompt : prompt[i].tag \in GroundedTags
GeneralMode == \E i \in DOMAIN prompt : prompt[i].tag \in GeneralTags
HasTag(tag) == \E i \in DOMAIN prompt : prompt[i].tag = tag

\* some chunk holds a character that is not whitespace
SomeChunkNotBlank ==
    \E i \in DOMAIN context_chunks :
        \E k \in DOMAIN context_chunks[i].v : context_chunks[i].v[k] \notin Whitespace

\* get_llm_response has composed a prompt in this call
PromptComposed == pc = "done" /\ Called("llm")

\* query_pinecone has returned (to ask_lucy, or to the caller)
QueryReturned ==
    \/ entry = "query_pinecone" /\ pc = "done"
    \/ entry = "ask_lucy" /\ pc \in {"llm", "done"} /\ Truthy(query_embedding)

\* C1 (as claimed): ask_lucy never raises to its caller; whatever the
\* embedding call, the vector-store query, the LLM call and the metadata of
\* the matches produce, it returns a string.
C1_AskLucyNeverRaises ==
    entry = "ask_lucy" =>
        /\ raised = ""
        /\ pc = "done" => result.kind \in {"apology", "answer"}

\* C2: the external calls of ask_lucy are made in the order embedding, vector
\* store query, LLM; none is made when a required setting is missing (config
\* apology) or the index handle is absent (database apology); when the
\* embedding fails only the embedding call was made and the rephrase apology
\* is returned.
C2_StagesInOrder ==
    entry = "ask_lucy" =>
        /\ IsPrefix(calls, StageOrder)
        /\ ~AllConfigured =>
              /\ calls = <<>>
              /\ pc = "done" /\ result = Apology(ApologyNotConfigured)
        /\ (AllConfigured /\ ~pinecone_index) =>
              /\ calls = <<>>
              /\ pc = "done" /\ result = Apology(ApologyNoDatabase)
        /\ (Called("embed") /\ ~Truthy(query_embedding)) =>
              /\ calls = << "embed" >>
              /\ pc = "done" /\ result = Apology(ApologyRephrase)
        /\ (Called("vector_query") \/ Called("llm")) => Truthy(query_embedding)

C2_Witness ==
    /\ entry = "ask_lucy"
    /\ pc = "done"
    /\ calls = << "embed" >>
    /\ query_embedding = List(<<>>)
    /\ result = Apology(ApologyRephrase)

\* C3: a composed prompt is in exactly one mode: grounded (the answer-only-
\* from-context instructions and the context block) if and only if some
\* chunk of context_chunks is non-blank after trimming, general-knowledge
\* otherwise; the instructions of the two modes never appear together.
C3_ExactlyOneMode ==
    PromptComposed =>
        /\ GroundedMode <=> SomeChunkNotBlank
        /\ GeneralMode <=> ~SomeChunkNotBlank
        /\ ~(GroundedMode /\ GeneralMode)
        /\ GroundedMode =>
              \A tag \in GroundedTags : HasTag(tag)
        /\ GeneralMode =>
              \A tag \in GeneralTags : HasTag(tag)

C3_Witness ==
    /\ PromptComposed
    /\ Len(context_chunks) >= 2
    /\ \E i \in DOMAIN context_chunks : Strip(context_chunks[i].v) = <<>>
    /\ GroundedMode

\* the three failure categories of the LLM call
LlmFailureCategory(o) ==
    CASE o.kind = "raises" /\ o.exc = "Timeout" -> "timeout"
      [] o.kind = "raises" /\ o.exc \in {"ConnectionError", "HTTPError"} -> "transport"
      [] OTHER -> "shape"

\* the LLM call of outcome o gave no answer
LlmFailed(o) ==
    ~( /\ o.kind = "json"
       /\ o.body.jtype = "object"
       /\ o.body.has_choices
       /\ Len(o.body.choices) > 0
       /\ o.body.choices[1].has_message
       /\ o.body.choices[1].has_content
       /\ o.body.choices[1].content.t = "str" )

LlmFailures == { o \in LlmOutcomes : LlmFailed(o) }

C5_EmptyMeansNoContext ==
    /\ entry = "query_pinecone" => raised = ""
    /\ (entry = "ask_lucy" /\ pc = "llm") => raised = ""
    /\ (QueryReturned /\ ( \/ ~pinecone_index
                           \/ ~Truthy(query_embedding)
                           \/ store_response.kind \in {"error", "no_matches_key"} )) =>
          /\ context_chunks = <<>>
          /\ store_response.kind = "none" <=> ~Called("vector_query")
    /\ (entry = "ask_lucy" /\ pc = "done" /\ QueryReturned /\ context_chunks = <<>>) =>
          /\ calls = StageOrder
          /\ GeneralMode /\ ~GroundedMode
          /\ raised = ""
          /\ result.kind \in {"apology", "answer"}
          /\ result.text \notin {ApologyNotConfigured, ApologyNoDatabase, ApologyRephrase}

C5_Witness ==
    /\ entry = "ask_lucy"
    /\ pc = "done"
    /\ store_response.kind = "error"
    /\ context_chunks = <<>>
    /\ calls = StageOrder
    /\ GeneralMode
    /\ result.kind = "answer"

\* C6 (as claimed): query_pinecone sends the filter {propertyId: value} for
\* every property_id_filter value it is given, the one ask_lucy passes
\* included, so that only texts of that property come back; it sends no
\* filter only when the filter is omitted (None).
C6_FilterSentWhenProvided ==
    query_params.sent =>
        /\ property_id.t # "none" =>
              /\ query_params.has_filter
              /\ query_params.filter = property_id.v
              /\ \A i \in DOMAIN store_response.matches :
                    /\ store_response.matches[i].metadata = "dict"
                    /\ store_response.matches[i].propertyId = property_id.v
        /\ property_id.t = "none" => ~query_params.has_filter

\* the text metadata of the matches that carry one, in the order of the matches
RECURSIVE TextsCarried(_)
TextsCarried(ms) ==
    IF ms = <<>> THEN <<>>
    ELSE (IF Head(ms).metadata = "dict" /\ Head(ms).has_text
          THEN << Head(ms).text >> ELSE <<>>) \o TextsCarried(Tail(ms))

\* C7 (as claimed): query_pinecone returns exactly the text metadata of the
\* matches that carry one, in the store's order and at most top_k of them; a
\* match with no metadata key, a null metadata or no text key is left out
\* without removing or reordering the texts of the others.
C7_TextsOfMatchesInOrder ==
    (QueryReturned /\ store_response.kind = "matches") =>
        /\ context_chunks = TextsCarried(store_response.matches)
        /\ Len(context_chunks) <= TOP_K

---------------------------------------------------------------------------
(* C17 *)

\* the identifier has the keyword in it, whatever the case of its letters
HasWord(pid, kw) ==
    /\ pid.t = "str"
    /\ \E i \in 1..(Len(pid.v) - Len(kw) + 1) :
           \A k \in DOMAIN kw : LowerChar(pid.v[i + k - 1]) = kw[k]

NamesBali(pid) == \E kw \in BaliKeywords : HasWord(pid, kw)
NamesDubai(pid) == HasWord(pid, KwDubai)

LabelDerived ==
    /\ pc = "done"
    /\ entry = "get_llm_response"
    /\ LlmReachesPost(settings, context_chunks)

\* C17: the locality label get_llm_response derives is "Bali" for an
\* identifier that has one of bali, nelayan, seminyak, ubud, canggu in it in
\* any case (also when it has dubai in it too), "Dubai" for any other
\* identifier that has dubai in it, and "the current location" for every
\* other identifier, the absent and the empty one included.
C17_LabelByPriority ==
    LabelDerived =>
        city_name = IF NamesBali(property_id) THEN Bali
                    ELSE IF NamesDubai(property_id) THEN Dubai
                    ELSE TheCurrentLocation

\* an identifier that names both localities was labelled "Bali", and the
\* general prompt carries that label
C17_Witness ==
    /\ LabelDerived
    /\ NamesBali(property_id)
    /\ NamesDubai(property_id)
    /\ city_name = Bali
    /\ \E i \in DOMAIN prompt : prompt[i].tag = "local_expert" /\ prompt[i].body = Bali

---------------------------------------------------------------------------
(* Claims about ingestion, checked under SpecIngest *)

\* get_google_embeddings_batch has been called in this run
Embedded == ipc # "off" /\ embed_from > 0
\* the texts of the call made last
LastTexts == TextsInBatch(embed_from - BATCH_SIZE_GOOGLE_EMBEDDING)
\* the run has returned
RunDone == ipc = "done"

\* C11: get_google_embeddings_batch returns one output per input text, in
\* input order: whatever the embedding service answers, the list returned has
\* the length of texts and holds at position i the embedding of texts[i] or
\* None, so that every chunk of the run is paired with its own embedding or
\* with None, and none is left without a pair.
C11_OneOutputPerText ==
    Embedded =>
        /\ Len(embeddings_batch) = Len(LastTexts)
        /\ \A i \in DOMAIN embeddings_batch :
               embeddings_batch[i] = NoneEmbedding \/ embeddings_batch[i].of = LastTexts[i]
        /\ \A p \in DOMAIN paired :
               \/ paired[p] = NoneEmbedding
               \/ paired[p].t = "list" /\ paired[p].of = all_files_chunks_with_metadata[p].text

\* the embedding loop has handled every batch
EmbeddingOver == ipc \in {"upsert", "done"} /\ Embedded
\* the run went through the upsert loop to its end
Completed == RunDone /\ run_outcome = "completed"

\* a list of EMBEDDING_DIMENSIONS values
FullVector(e) == e.t = "list" /\ e.len = EMBEDDING_DIMENSIONS
FullAt(p) == FullVector(paired[p])
\* the positions of the chunks paired with such a list, in order
FullPositions == SelectSeq([p \in DOMAIN paired |-> p], FullAt)
\* the upsert call that carries position k of vectors_to_upsert
CallOf(k) == ((k - 1) \div BATCH_SIZE_PINECONE_UPSERT) + 1

\* C12: every vector record passed to upsert has an embedding of
\* EMBEDDING_DIMENSIONS values; a chunk paired with None, an empty list or a
\* list of another length is left out, and leaving it out does not end the
\* run: every chunk of every batch is still handled, the upsert set is
\* exactly the chunks paired with a full vector, in order, and once the run
\* completes each of them was passed to upsert.
C12_OnlyFullVectorsUpserted ==
    /\ \A c \in DOMAIN upsert_log : \A k \in DOMAIN upsert_log[c].vectors :
           FullVector(upsert_log[c].vectors[k].values)
    /\ EmbeddingOver =>
           /\ Len(paired) = Len(all_files_chunks_with_metadata)
           /\ vectors_to_upsert =
                  [k \in DOMAIN FullPositions |->
                      VectorRecord(all_files_chunks_with_metadata[FullPositions[k]],
                                   paired[FullPositions[k]])]
           /\ vectors_to_upsert # <<>> => ipc = "upsert" \/ Completed
    /\ Completed =>
           \A k \in DOMAIN vectors_to_upsert :
              /\ CallOf(k) \in DOMAIN upsert_log
              /\ \E j \in DOMAIN upsert_log[CallOf(k)].vectors :
                     upsert_log[CallOf(k)].vectors[j] = vectors_to_upsert[k]

\* two embedding batches; the first chunk came back with a list of another
\* length and was left out, the chunks after it, of both batches, were upserted
C12_Witness ==
    /\ Completed
    /\ embed_from = 2 * BATCH_SIZE_GOOGLE_EMBEDDING
    /\ paired[1].t = "list" /\ paired[1].len # EMBEDDING_DIMENSIONS
    /\ Len(vectors_to_upsert) = Len(all_files_chunks_with_metadata) - 1
    /\ vectors_to_upsert[1].metadata.text = all_files_chunks_with_metadata[2].text
    /\ \E k \in DOMAIN upsert_log[1].vectors :
           upsert_log[1].vectors[k].metadata.text =
               all_files_chunks_with_metadata[Len(all_files_chunks_with_metadata)].text

\* what the index held when the run started
ExistedAtStart == account_index.exists /\ index_log = <<>>
StoreAtStart == IF ExistedAtStart THEN PriorStore ELSE EmptyStore
\* the upsert calls that succeeded, and the places of a record id in them
Succeeded == { c \in DOMAIN upsert_log : upsert_log[c].ok }
PlacesOf(id) ==
    { << c, k >> \in Succeeded \X (1..BATCH_SIZE_PINECONE_UPSERT) :
         k <= Len(upsert_log[c].vectors) /\ upsert_log[c].vectors[k].id = id }
Later(a, b) == a[1] > b[1] \/ (a[1] = b[1] /\ a[2] >= b[2])
LastWritten(id) ==
    LET place == CHOOSE a \in PlacesOf(id) : \A b \in PlacesOf(id) : Later(a, b)
    IN  upsert_log[place[1]].vectors[place[2]]

\* C13: upserting is partial-success: the batches of vectors_to_upsert are sent
\* one after the other, each once, whether or not an earlier upsert failed; a
\* completed run has sent all of them; and the index holds what it held at
\* the start of the run with the records of exactly the batches whose upsert
\* succeeded written over it.
C13_PartialSuccess ==
    /\ \A c \in DOMAIN upsert_log :
           upsert_log[c].vectors =
               PySlice(vectors_to_upsert, (c - 1) * BATCH_SIZE_PINECONE_UPSERT,
                       c * BATCH_SIZE_PINECONE_UPSERT)
    /\ Completed =>
           Len(upsert_log) = CallOf(Len(vectors_to_upsert))
    /\ ipc # "off" =>
           /\ DOMAIN vstore =
                  DOMAIN StoreAtStart \cup
                  { upsert_log[c].vectors[k].id :
                      << c, k >> \in { a \in Succeeded \X (1..BATCH_SIZE_PINECONE_UPSERT) :
                                         a[2] <= Len(upsert_log[a[1]].vectors) } }
           /\ \A id \in DOMAIN vstore :
                  vstore[id] = IF PlacesOf(id) # {} THEN LastWritten(id)
                               ELSE StoreAtStart[id]

\* the first of two upserts failed, the second was still made, and the index
\* holds the records of the second batch and none of the first
C13_Witness ==
    /\ Completed
    /\ Len(upsert_log) = 2
    /\ ~upsert_log[1].ok
    /\ upsert_log[2].ok
    /\ \A k \in DOMAIN upsert_log[2].vectors : upsert_log[2].vectors[k].id \in DOMAIN vstore
    /\ \A k \in DOMAIN upsert_log[1].vectors : upsert_log[1].vectors[k].id \notin DOMAIN vstore

\* the run created the index
CreatedThisRun == account_index.exists /\ index_log # <<>>
\* PINECONE_ENVIRONMENT gives no spec for an index
NoDeploymentShape == SpecOfEnvironment(environment_config.v) = NoSpec
\* the run is, or has ended, before the folder is read
BeforeData == ipc \in {"start", "create", "poll", "describe", "done"}
\* nothing was embedded or upserted, and the content of the index is untouched
NothingIngested ==
    /\ ~Embedded
    /\ paired = <<>>
    /\ upsert_log = <<>>
    /\ vstore = StoreAtStart
\* every index the run asked for has EMBEDDING_DIMENSIONS dimensions
NoForeignIndex ==
    \A k \in DOMAIN index_log : index_log[k].dimension = EMBEDDING_DIMENSIONS
\* the run embeds and upserts only with an index that exists, was reported
\* ready and has EMBEDDING_DIMENSIONS dimensions
IngestsOnlyIntoReadyIndex ==
    (ipc \in {"read", "embed", "upsert"} \/ ~NothingIngested) =>
        /\ account_index.exists
        /\ reported_ready
        /\ Ready(account_index, clock)
        /\ account_index.dimension = EMBEDDING_DIMENSIONS

\* C15 as stated: a run upserts only into an index that exists, was reported
\* ready and has EMBEDDING_DIMENSIONS dimensions; if the existing index has
\* another dimension or is not ready, or the created index is not ready
\* TIMEOUT_SECONDS after its creation, or the environment string gives no
\* deployment shape, the run ends with nothing embedded or upserted and no
\* index of another dimension created.
C15_RefusesOnTimeoutOrNoShape ==
    /\ IngestsOnlyIntoReadyIndex
    /\ NoForeignIndex
    /\ ( \/ ExistedAtStart /\ account_index.dimension # EMBEDDING_DIMENSIONS
         \/ ExistedAtStart /\ ~Ready(account_index, 0)
         \/ CreatedThisRun /\ ~Ready(account_index, TIMEOUT_SECONDS)
         \/ ipc # "off" /\ NoDeploymentShape )
       => BeforeData /\ NothingIngested

\* C15: a run upserts only into an index that exists, was reported ready and
\* has EMBEDDING_DIMENSIONS dimensions; if the existing index has another
\* dimension or is not ready, or the created index is still not ready at the
\* first poll made more than TIMEOUT_SECONDS after its creation (at the
\* latest one CHECK_INTERVAL and one describe_index call after the timeout),
\* or there is no index and the environment string gives no deployment
\* shape, the run ends with nothing embedded or upserted and no index of
\* another dimension created.
C15_RefusesUnusableIndex ==
    /\ IngestsOnlyIntoReadyIndex
    /\ NoForeignIndex
    /\ ( \/ ExistedAtStart /\ account_index.dimension # EMBEDDING_DIMENSIONS
         \/ ExistedAtStart /\ ~Ready(account_index, 0)
         \/ CreatedThisRun
            /\ ~Ready(account_index, TIMEOUT_SECONDS + CHECK_INTERVAL + PollLatency)
         \/ ipc # "off" /\ ~ExistedAtStart /\ NoDeploymentShape )
       => BeforeData /\ NothingIngested
    /\ run_outcome = "timeout" => clock > TIMEOUT_SECONDS /\ ~Ready(account_index, clock)

\* the created index, ready only well after the timeout, was given up at a
\* poll made after the timeout, and nothing was ingested
C15_Witness ==
    /\ RunDone
    /\ run_outcome = "timeout"
    /\ CreatedThisRun
    /\ account_index.becomes_ready
    /\ clock > TIMEOUT_SECONDS
    /\ NothingIngested

\* C16: vector identifiers are unique within a run: two chunks of
\* vectors_to_upsert that differ in source file or chunk index never have the
\* same id.
C16_IdsUniqueInRun ==
    \A i, j \in DOMAIN vectors_to_upsert :
        ( \/ vectors_to_upsert[i].metadata.original_file #
                vectors_to_upsert[j].metadata.original_file
          \/ vectors_to_upsert[i].metadata.text # vectors_to_upsert[j].metadata.text )
        => vectors_to_upsert[i].id # vectors_to_upsert[j].id

---------------------------------------------------------------------------
(* Claims about repeated ingestion, checked under SpecRerun *)

\* both runs are over and every embedding and upsert call of both succeeded
TwoCleanRuns ==
    /\ first_run.ran
    /\ first_run.succeeded
    /\ RunDone
    /\ CallsSucceeded

RunIds == { vectors_to_upsert[k].id : k \in DOMAIN vectors_to_upsert }

\* C14: ingestion is idempotent: a second run on the unchanged folder, every
\* embedding and upsert call succeeding in both runs and the files listed in
\* any order, produces the same identifiers as the first, and leaves the
\* index with the same identifiers and the same metadata as the first run
\* left it.
C14_SecondRunChangesNothing ==
    TwoCleanRuns =>
        /\ RunIds = first_run.ids
        /\ DOMAIN vstore = DOMAIN first_run.store
        /\ \A id \in DOMAIN vstore : vstore[id].metadata = first_run.store[id].metadata

\* the same, for runs whose identifiers are unique
C14_IdempotentWhenIdsUnique ==
    (TwoCleanRuns /\ Cardinality(RunIds) = Len(vectors_to_upsert)) =>
        /\ RunIds = first_run.ids
        /\ vstore = first_run.store

===========================================================================
